---- MODULE Spec2Model ----
(***************************************************************************)
(* The question store (logic/db.py), the ingestion write path              *)
(* (data/qa_loader.py, load_excel_to_db) and the weighted selector         *)
(* (logic/question_selector.py) of the USCIS practice app, and the         *)
(* session state and button handlers of its pages (app.py).                *)
(*                                                                         *)
(* The table `questions` is the sequence `rows`, in rowid order.  Python   *)
(* floats (fail_rate, weight) are modelled as exact reduced fractions      *)
(* <<numerator, denominator>>; for the small counters of the model IEEE    *)
(* division maps equal quotients to equal floats and distinct quotients to *)
(* distinct floats in the same order.                                      *)
(***************************************************************************)
EXTENDS Integers, Sequences, FiniteSets, TLC

VARIABLES rows, last, ret, session

vars == <<rows, last, ret, session>>

(* ------------------------------ bounds -------------------------------- *)

\* longest list of tuples one ingestion extracts
MaxBatch == 2
\* recorded attempts (sum of times_seen) the model follows
MaxAttempts == 3
\* largest limit handed to get_most_missed_questions
MaxLimit == 4
\* largest question set a practice session is followed over
MaxRows == 3
\* largest times_seen the weight formula is evaluated at
MaxSeen == 10
\* largest question set the weight formula is evaluated over
MaxWeighed == 2

Texts == {"q1", "q2"}
\* (answer_text, category) of one edition of the spreadsheet; None is "none"
Payloads == {<<"a1", "none">>, <<"a2", "c1">>}

Tuple(text, payload) == [question_text |-> text, payload |-> payload]

\* what normalize_excel_data hands on: the texts of up to n rows (a text may
\* repeat), with the answers and category of the edition read
BatchesUpTo(n, payloads) ==
    UNION {{[i \in 1..k |-> Tuple(ts[i], p)] : ts \in [1..k -> Texts], p \in payloads} :
           k \in 0..n}

Batches == BatchesUpTo(MaxBatch, Payloads)

\* ids a caller may pass: 0 and MaxRows + 1 never name a row
Ids == 0..(MaxRows + 1)

Limits == (-1)..MaxLimit

(* ----------------------------- fractions ------------------------------ *)

RECURSIVE GCD(_, _)
GCD(a, b) == IF b = 0 THEN a ELSE GCD(b, a % b)

Abs(x) == IF x < 0 THEN -x ELSE x

Frac(n, d) ==
    LET g == GCD(Abs(n), d)
    IN  <<n \div g, d \div g>>

RAdd(a, b) == Frac(a[1] * b[2] + b[1] * a[2], a[2] * b[2])

RMul(a, b) == Frac(a[1] * b[1], a[2] * b[2])

RLess(a, b) == a[1] * b[2] < b[1] * a[2]

(* ------------------------------ the store ----------------------------- *)

\* INSERT without times_seen/times_failed: the column defaults
NewRow(id, q) ==
    [id |-> id, question_text |-> q.question_text,
     answer_text |-> q.payload[1], category |-> q.payload[2],
     times_seen |-> 0, times_failed |-> 0]

\* INTEGER PRIMARY KEY: the next rowid is one more than the largest
NextId(rs) ==
    IF rs = <<>> THEN 1
    ELSE 1 + CHOOSE m \in {rs[i].id : i \in DOMAIN rs} :
                 \A i \in DOMAIN rs : rs[i].id <= m

RECURSIVE TotalSeen(_)
TotalSeen(rs) ==
    IF rs = <<>> THEN 0 ELSE rs[1].times_seen + TotalSeen(Tail(rs))

\* st.session_state as the first run of the script sets it; None is 0
InitSession ==
    [current_question_id |-> 0, show_answer |-> FALSE, answered |-> FALSE,
     view_mode |-> "practice", data_loaded |-> FALSE]

Init ==
    /\ rows = <<>>
    /\ last = "init_database"
    /\ ret = [status |-> "ok", count |-> 0, val |-> <<>>]
    /\ session = InitSession

Ok(val) == [status |-> "ok", count |-> 0, val |-> val]

Raise(exc) == [status |-> exc, count |-> 0, val |-> <<>>]

\* SELECT COUNT(*) FROM questions
get_question_count ==
    /\ last' = "get_question_count"
    /\ ret' = [status |-> "ok", count |-> Len(rows), val |-> <<>>]
    /\ UNCHANGED <<rows, session>>

\* BumpRow with the fail branch forgetting times_seen
BumpRowFailOnly(r, passed) ==
    IF passed
    THEN [r EXCEPT !.times_seen = @ + 1]
    ELSE [r EXCEPT !.times_failed = @ + 1]

\* SET times_seen = times_seen + 1 [, times_failed = times_failed + 1]
BumpRow(r, passed) ==
    IF passed
    THEN [r EXCEPT !.times_seen = @ + 1]
    ELSE [r EXCEPT !.times_seen = @ + 1, !.times_failed = @ + 1]

\* UpdateStats with the WHERE clause lost
UpdateStatsNoWhere(rs, question_id, passed) ==
    [i \in DOMAIN rs |-> BumpRow(rs[i], passed)]

\* UpdateStats as an upsert: an id that matches no row creates one
UpdateStatsUpsert(rs, question_id, passed) ==
    IF \E i \in DOMAIN rs : rs[i].id = question_id
    THEN [i \in DOMAIN rs |->
             IF rs[i].id = question_id THEN BumpRow(rs[i], passed) ELSE rs[i]]
    ELSE Append(rs, BumpRow(NewRow(question_id, Tuple("q1", <<"a1", "none">>)),
                            passed))

\* UPDATE questions ... WHERE id = ?
UpdateStats(rs, question_id, passed) ==
    [i \in DOMAIN rs |->
        IF rs[i].id = question_id THEN BumpRow(rs[i], passed) ELSE rs[i]]

update_question_stats(question_id, passed) ==
    /\ TotalSeen(rows) < MaxAttempts
    /\ rows' = UpdateStats(rows, question_id, passed)
    /\ last' = "update_question_stats"
    /\ ret' = Ok(<<>>)
    /\ UNCHANGED session

\* ResetRow that clears times_seen only
ResetRowSeenOnly(r) == [r EXCEPT !.times_seen = 0]

\* UPDATE questions SET times_seen = 0, times_failed = 0
ResetRow(r) == [r EXCEPT !.times_seen = 0, !.times_failed = 0]

reset_all_statistics ==
    /\ rows' = [i \in DOMAIN rows |-> ResetRow(rows[i])]
    /\ last' = "reset_all_statistics"
    /\ ret' = Ok(<<>>)
    /\ UNCHANGED session

\* SELECT * FROM questions WHERE id = ?; fetchone(); dict(row) or None
QuestionById(rs, question_id) ==
    LET hit == {i \in DOMAIN rs : rs[i].id = question_id}
    IN  IF hit = {} THEN <<>>
        ELSE <<rs[CHOOSE i \in hit : \A j \in hit : i <= j]>>

get_question_by_id(question_id) ==
    /\ last' = "get_question_by_id"
    /\ ret' = Ok(QuestionById(rows, question_id))
    /\ UNCHANGED <<rows, session>>

\* times_failed / times_seen if times_seen > 0 else 0.0
FailRate(r) ==
    IF r.times_seen > 0 THEN Frac(r.times_failed, r.times_seen) ELSE <<0, 1>>

\* dict(row) with the computed fail_rate
WithFailRate(r) ==
    [id |-> r.id, question_text |-> r.question_text,
     answer_text |-> r.answer_text, category |-> r.category,
     times_seen |-> r.times_seen, times_failed |-> r.times_failed,
     fail_rate |-> FailRate(r)]

AllQuestions(rs) == [i \in DOMAIN rs |-> WithFailRate(rs[i])]

get_all_questions ==
    /\ last' = "get_all_questions"
    /\ ret' = Ok(AllQuestions(rows))
    /\ UNCHANGED <<rows, session>>

(* ----------------------- get_most_missed_questions --------------------- *)

\* KeyLess on fail_rate alone: the tie-break dropped from the key
KeyLessRateOnly(a, b) == RLess(a.fail_rate, b.fail_rate)

\* the sort key (fail_rate, times_failed), compared as Python compares tuples
KeyLess(a, b) ==
    \/ RLess(a.fail_rate, b.fail_rate)
    \/ /\ a.fail_rate = b.fail_rate
       /\ a.times_failed < b.times_failed

\* x goes in front of the first element whose key is smaller: after its equals
RECURSIVE InsertDesc(_, _)
InsertDesc(s, x) ==
    IF s = <<>> THEN <<x>>
    ELSE IF KeyLess(s[1], x) THEN <<x>> \o s
    ELSE <<s[1]>> \o InsertDesc(Tail(s), x)

\* list.sort(key=..., reverse=True): descending, and stable
RECURSIVE SortDesc(_)
SortDesc(s) ==
    IF s = <<>> THEN <<>>
    ELSE InsertDesc(SortDesc(SubSeq(s, 1, Len(s) - 1)), s[Len(s)])

\* questions[:limit]
Slice(s, limit) ==
    IF limit >= 0
    THEN SubSeq(s, 1, IF limit < Len(s) THEN limit ELSE Len(s))
    ELSE SubSeq(s, 1, IF Len(s) + limit > 0 THEN Len(s) + limit ELSE 0)

MostMissed(rs, limit) == Slice(SortDesc(AllQuestions(rs)), limit)

get_most_missed_questions(limit) ==
    /\ last' = "get_most_missed_questions"
    /\ ret' = Ok(MostMissed(rows, limit))
    /\ UNCHANGED <<rows, session>>

(* --------------------------- get_next_question ------------------------- *)

\* if q['times_seen'] < 3
FewAttempts == 3
\* weight *= 1.5
Boost == <<3, 2>>
\* weight += (fail_rate * 3)
FailFactor == 3

\* Weight with the boost test written <= instead of <
WeightBoostAtThreshold(q) ==
    LET w0 == <<1, 1>>
        w1 == IF q.times_seen <= FewAttempts THEN RMul(w0, Boost) ELSE w0
        fail_rate == IF q.times_seen > 0 THEN q.fail_rate ELSE <<0, 1>>
    IN  RAdd(w1, RMul(fail_rate, <<FailFactor, 1>>))

\* Weight that starts from 0.0 instead of 1.0
WeightNoBase(q) ==
    LET w0 == <<0, 1>>
        w1 == IF q.times_seen < FewAttempts THEN RMul(w0, Boost) ELSE w0
        fail_rate == IF q.times_seen > 0 THEN q.fail_rate ELSE <<0, 1>>
    IN  RAdd(w1, RMul(fail_rate, <<FailFactor, 1>>))

Weight(q) ==
    LET w0 == <<1, 1>>
        w1 == IF q.times_seen < FewAttempts THEN RMul(w0, Boost) ELSE w0
        fail_rate == IF q.times_seen > 0 THEN q.fail_rate ELSE <<0, 1>>
    IN  RAdd(w1, RMul(fail_rate, <<FailFactor, 1>>))

RECURSIVE TotalWeight(_)
TotalWeight(qs) ==
    IF qs = <<>> THEN <<0, 1>> ELSE RAdd(Weight(qs[1]), TotalWeight(Tail(qs)))

\* random.choices(questions, weights=weights, k=1)[0]: an index can be drawn
\* iff its weight is positive; a total that is not positive raises ValueError
Drawable(qs) == {i \in DOMAIN qs : RLess(<<0, 1>>, Weight(qs[i]))}

\* NextQuestion without the empty check: random.choices([]) raises IndexError
NextQuestionNoEmptyCheck(rs) ==
    LET questions == AllQuestions(rs)
    IN  IF questions = <<>> THEN {Raise("IndexError")}
        ELSE {Ok(<<questions[i]>>) : i \in Drawable(questions)}

NextQuestion(rs) ==
    LET questions == AllQuestions(rs)
    IN  IF questions = <<>> THEN {Ok(<<>>)}
        ELSE IF ~RLess(<<0, 1>>, TotalWeight(questions))
        THEN {Raise("ValueError")}
        ELSE {Ok(<<questions[i]>>) : i \in Drawable(questions)}

get_next_question ==
    /\ last' = "get_next_question"
    /\ ret' \in NextQuestion(rows)
    /\ UNCHANGED <<rows, session>>

(* ---------------------------- load_excel_to_db ------------------------- *)

\* INSERT INTO questions (question_text, answer_text, category)
InsertRow(rs, q) == Append(rs, NewRow(NextId(rs), q))

\* SELECT id FROM questions WHERE question_text = ?; fetchone()
ExistingId(rs, text) ==
    LET hit == {i \in DOMAIN rs : rs[i].question_text = text}
    IN  IF hit = {} THEN 0
        ELSE rs[CHOOSE i \in hit : \A j \in hit : i <= j].id

\* UPDATE questions SET answer_text = ?, category = ? WHERE id = ?
UpdateRow(rs, id, q) ==
    [i \in DOMAIN rs |->
        IF rs[i].id = id
        THEN [rs[i] EXCEPT !.answer_text = q.payload[1],
                           !.category = q.payload[2]]
        ELSE rs[i]]

\* UpsertRow whose SELECT never finds the text
UpsertRowAlwaysInsert(rs, q) == InsertRow(rs, q)

UpsertRow(rs, q) ==
    LET existing == ExistingId(rs, q.question_text)
    IN  IF existing # 0 THEN UpdateRow(rs, existing, q) ELSE InsertRow(rs, q)

RECURSIVE InsertAll(_, _)
InsertAll(rs, questions) ==
    IF questions = <<>> THEN rs
    ELSE InsertAll(InsertRow(rs, questions[1]), Tail(questions))

RECURSIVE UpsertAll(_, _)
UpsertAll(rs, questions) ==
    IF questions = <<>> THEN rs
    ELSE UpsertAll(UpsertRow(rs, questions[1]), Tail(questions))

\* existing_count == 0: insert all; otherwise update or insert by text
StoreQuestions(rs, questions) ==
    IF Len(rs) = 0 THEN InsertAll(rs, questions) ELSE UpsertAll(rs, questions)

\* variant without `if not questions: raise ValueError`
load_excel_to_dbNoEmptyCheck(readable, questions) ==
    /\ last' = "load_excel_to_db"
    /\ UNCHANGED session
    /\ IF ~readable
       THEN /\ ret' = Raise("ValueError")
            /\ UNCHANGED rows
       ELSE /\ rows' = StoreQuestions(rows, questions)
            /\ ret' = [status |-> "ok", count |-> Len(questions), val |-> <<>>]

\* readable: pd.ExcelFile / pd.read_excel did not raise;
\* questions: what normalize_excel_data extracted
load_excel_to_db(readable, questions) ==
    /\ last' = "load_excel_to_db"
    /\ UNCHANGED session
    /\ IF ~readable \/ questions = <<>>
       THEN /\ ret' = Raise("ValueError")
            /\ UNCHANGED rows
       ELSE /\ rows' = StoreQuestions(rows, questions)
            /\ ret' = [status |-> "ok", count |-> Len(questions), val |-> <<>>]

(* --------------------------- specifications --------------------------- *)

\* The store from the empty table on: ingestion and the counter updates.
Next ==
    \/ \E id \in Ids, passed \in BOOLEAN : update_question_stats(id, passed)
    \/ reset_all_statistics
    \/ \E readable \in BOOLEAN :
          \E questions \in (IF readable THEN Batches ELSE {<<>>}) :
              load_excel_to_db(readable, questions)

Spec == Init /\ [][Next]_vars

\* A practice session over a question set that one ingestion into the empty
\* table produced (up to MaxRows questions, each text once): the counter
\* updates and every read of the store.
QueryBatches ==
    {[i \in 1..k |-> Tuple("q" \o ToString(i), <<"a1", "none">>)] : k \in 0..MaxRows}

InitQuery ==
    /\ \E questions \in QueryBatches : rows = InsertAll(<<>>, questions)
    /\ last = "load_excel_to_db"
    /\ ret = Ok(<<>>)
    /\ session = InitSession

NextQuery ==
    \/ \E id \in Ids, passed \in BOOLEAN : update_question_stats(id, passed)
    \/ reset_all_statistics
    \/ get_question_count
    \/ \E id \in Ids : get_question_by_id(id)
    \/ get_all_questions
    \/ \E limit \in Limits : get_most_missed_questions(limit)
    \/ get_next_question

SpecQuery == InitQuery /\ [][NextQuery]_vars

\* The weight formula over a fresh question set in which one question has
\* any counters up to MaxSeen: what one ingestion and up to MaxSeen recorded
\* attempts on one question leave.
WithCounters(rs, k, c) ==
    [i \in DOMAIN rs |->
        IF i = k
        THEN [rs[i] EXCEPT !.times_seen = c[1], !.times_failed = c[2]]
        ELSE rs[i]]

Counters == {c \in (0..MaxSeen) \X (0..MaxSeen) : c[2] <= c[1]}

InitWeight ==
    /\ \E questions \in BatchesUpTo(MaxWeighed, {<<"a1", "none">>}) \ {<<>>} :
          \E k \in DOMAIN questions, c \in Counters :
              rows = WithCounters(InsertAll(<<>>, questions), k, c)
    /\ last = "update_question_stats"
    /\ ret = Ok(<<>>)
    /\ session = InitSession

NextWeight ==
    \/ get_all_questions
    \/ get_next_question

SpecWeight == InitWeight /\ [][NextWeight]_vars

(* ------------------------------ the app -------------------------------- *)

\* The page script of app.py runs from top to bottom once per user event (a
\* button click) and again after every st.rerun().  A step of the app is one
\* click with the runs it causes; its result is a set of outcomes
\* [rows, session, question], one per question the selector can draw.
Outcome(rs, s, q) == [rows |-> rs, session |-> s, question |-> q]

\* The spreadsheet in the project folder as a run finds it: whether one of the
\* file names exists, whether pandas can read it, and what normalize_excel_data
\* extracts from it.
NoFile == [exists |-> FALSE, readable |-> FALSE, questions |-> <<>>]

Files ==
    {NoFile, [exists |-> TRUE, readable |-> FALSE, questions |-> <<>>]}
        \cup {[exists |-> TRUE, readable |-> TRUE, questions |-> b] :
                 b \in QueryBatches}

\* load_excel_to_db as the app calls it: raised tells the except branch
LoadFile(rs, file) ==
    IF ~file.readable \/ file.questions = <<>>
    THEN [raised |-> TRUE, rows |-> rs]
    ELSE [raised |-> FALSE, rows |-> StoreQuestions(rs, file.questions)]

\* [rows, session, result] of auto_load_excel_file
auto_load_excel_file(rs, s, file) ==
    IF Len(rs) > 0 THEN [rows |-> rs, session |-> s, result |-> TRUE]
    ELSE IF s.data_loaded THEN [rows |-> rs, session |-> s, result |-> FALSE]
    ELSE LET tried == [s EXCEPT !.data_loaded = TRUE]
         IN  IF file.exists
             THEN LET l == LoadFile(rs, file)
                  IN  [rows |-> l.rows, session |-> tried,
                       result |-> ~l.raised]
             ELSE [rows |-> rs, session |-> tried, result |-> FALSE]

\* variant that keeps the answer revealed when the question changes
SetQuestionKeepsAnswer(s, q) ==
    [s EXCEPT !.current_question_id = q.id, !.answered = FALSE]

\* the three assignments under `if question:` in load_initial_question
SetQuestion(s, q) ==
    [s EXCEPT !.current_question_id = q.id,
              !.show_answer = FALSE,
              !.answered = FALSE]

\* A ValueError of get_next_question ends the run with the session as it is.
load_initial_question(rs, s, file) ==
    LET a == IF Len(rs) = 0
             THEN auto_load_excel_file(rs, s, file)
             ELSE [rows |-> rs, session |-> s, result |-> TRUE]
    IN  IF ~a.result THEN {Outcome(a.rows, a.session, <<>>)}
        ELSE {IF o.status = "ok" /\ o.val # <<>>
              THEN Outcome(a.rows, SetQuestion(a.session, o.val[1]), o.val)
              ELSE Outcome(a.rows, a.session, <<>>) :
                  o \in NextQuestion(a.rows)}

\* practice page down to `if question:`: the question on display
CurrentQuestion(rs, s, file) ==
    IF s.current_question_id = 0
    THEN load_initial_question(rs, s, file)
    ELSE LET question == QuestionById(rs, s.current_question_id)
         IN  IF question = <<>>
             THEN load_initial_question(rs, s, file)
             ELSE {Outcome(rs, s, question)}

\* main content of a run in which no button of the page is pressed; the
\* statistics page only reads the table
MainContent(rs, s, file) ==
    IF s.view_mode = "stats" THEN {Outcome(rs, s, <<>>)}
    ELSE CurrentQuestion(rs, s, file)

\* st.rerun(): the script runs again with no button pressed
Rerun(outcomes, file) ==
    UNION {MainContent(o.rows, o.session, file) : o \in outcomes}

handle_pass_fail(rs, s, passed, file) ==
    IF s.current_question_id # 0
    THEN Rerun(load_initial_question(
                   UpdateStats(rs, s.current_question_id, passed), s, file),
               file)
    ELSE {Outcome(rs, s, <<>>)}

\* one step of the app: the run `handler` ends in one of `outcomes`
AppStep(handler, outcomes) ==
    /\ \E o \in outcomes :
          /\ rows' = o.rows
          /\ session' = o.session
    /\ last' = handler
    /\ ret' = Ok(<<>>)

PracticeButton(file) ==
    AppStep("practice",
            Rerun({Outcome(rows, [session EXCEPT !.view_mode = "practice"],
                           <<>>)}, file))

StatsButton(file) ==
    AppStep("stats",
            Rerun({Outcome(rows, [session EXCEPT !.view_mode = "stats"],
                           <<>>)}, file))

\* after a failed reload the same run goes on to the main content
ReloadButton(file) ==
    AppStep("reload",
            IF file.exists /\ ~LoadFile(rows, file).raised
            THEN Rerun(load_initial_question(LoadFile(rows, file).rows,
                                             session, file), file)
            ELSE MainContent(rows, session, file))

ResetButton(file) ==
    LET cleared == [i \in DOMAIN rows |-> ResetRow(rows[i])]
    IN  AppStep("reset",
                IF session.view_mode = "practice"
                THEN Rerun(load_initial_question(cleared, session, file), file)
                ELSE Rerun({Outcome(cleared, session, <<>>)}, file))

\* The buttons of the practice page act in a run only if the run draws them:
\* Show Answer while the answer is hidden, Pass and Fail while it is shown,
\* all three only under a question and not on the statistics page.  A click
\* that reaches a run which does not draw its button does nothing.
ShowAnswerButton(file) ==
    AppStep("show_answer",
            UNION {IF session.view_mode = "practice" /\ o.question # <<>>
                      /\ ~o.session.show_answer
                   THEN Rerun({Outcome(o.rows,
                                       [o.session EXCEPT !.show_answer = TRUE],
                                       <<>>)}, file)
                   ELSE {o} :
                       o \in MainContent(rows, session, file)})

PassFailButton(passed, file) ==
    /\ TotalSeen(rows) < MaxAttempts
    /\ AppStep("handle_pass_fail",
               UNION {IF session.view_mode = "practice" /\ o.question # <<>>
                         /\ o.session.show_answer
                      THEN handle_pass_fail(o.rows, o.session, passed, file)
                      ELSE {o} :
                          o \in MainContent(rows, session, file)})

\* the first run of the script in a new session, over the empty table
InitApp ==
    /\ \E file \in Files :
          \E o \in MainContent(<<>>, InitSession, file) :
              /\ rows = o.rows
              /\ session = o.session
    /\ last = "init_database"
    /\ ret = Ok(<<>>)

NextApp ==
    \/ \E file \in Files : PracticeButton(file)
    \/ \E file \in Files : StatsButton(file)
    \/ \E file \in Files : ReloadButton(file)
    \/ \E file \in Files : ResetButton(file)
    \/ \E file \in Files : ShowAnswerButton(file)
    \/ \E passed \in BOOLEAN, file \in Files : PassFailButton(passed, file)

SpecApp == InitApp /\ [][NextApp]_vars

(* ------------------------------- claims -------------------------------- *)

Missing(question_id) == \A i \in DOMAIN rows : rows[i].id # question_id

\* C1: in every reachable store state every row has
\* 0 <= times_failed <= times_seen.
C1_CountersOrdered ==
    \A i \in DOMAIN rows :
        /\ 0 <= rows[i].times_failed
        /\ rows[i].times_failed <= rows[i].times_seen

\* a row that has been failed and passed, after an attempt was recorded
C1_Witness ==
    /\ last = "update_question_stats"
    /\ \E i \in DOMAIN rows :
          /\ rows[i].times_failed > 0
          /\ rows[i].times_failed < rows[i].times_seen

\* C2: recording an attempt for an existing id adds exactly 1 to that row's
\* times_seen, adds exactly 1 to its times_failed iff passed is false, and
\* changes nothing else in the table; a pass then a fail on a (0,0) row give
\* times_seen = 2, times_failed = 1, fail_rate = 1/2.
C2_RecordedExactlyOnce ==
    [][\A id \in Ids, passed \in BOOLEAN :
          (last' = "update_question_stats" /\ update_question_stats(id, passed)) =>
              /\ Len(rows') = Len(rows)
              /\ \A i \in DOMAIN rows :
                    IF rows[i].id = id
                    THEN /\ rows'[i].times_seen = rows[i].times_seen + 1
                         /\ rows'[i].times_failed =
                               rows[i].times_failed + (IF passed THEN 0 ELSE 1)
                         /\ rows'[i].id = rows[i].id
                         /\ rows'[i].question_text = rows[i].question_text
                         /\ rows'[i].answer_text = rows[i].answer_text
                         /\ rows'[i].category = rows[i].category
                         /\ (/\ rows[i].times_seen = 0
                             /\ rows[i].times_failed = 0
                             /\ passed)
                                => /\ rows'[i].times_seen = 1
                                   /\ rows'[i].times_failed = 0
                         /\ (/\ rows[i].times_seen = 1
                             /\ rows[i].times_failed = 0
                             /\ ~passed)
                                => /\ rows'[i].times_seen = 2
                                   /\ rows'[i].times_failed = 1
                                   /\ AllQuestions(rows')[i].fail_rate = <<1, 2>>
                    ELSE rows'[i] = rows[i]]_vars

\* a row at (2, 1) beside an untouched row, after an attempt was recorded
C2_Witness ==
    /\ last = "update_question_stats"
    /\ Len(rows) >= 2
    /\ \E i, j \in DOMAIN rows :
          /\ rows[i].times_seen = 2
          /\ rows[i].times_failed = 1
          /\ rows[j].times_seen = 0

\* C3: recording an attempt for an id that matches no row completes without
\* an error and leaves the whole table unchanged; get_question_by_id of such
\* an id returns absent (None) without an error.
C3_MissingIdIsNoOp ==
    [][\A id \in Ids :
          (Missing(id) /\ last' \in {"update_question_stats", "get_question_by_id"}) =>
              /\ \A passed \in BOOLEAN :
                    update_question_stats(id, passed) =>
                        /\ rows' = rows
                        /\ ret'.status = "ok"
              /\ get_question_by_id(id) =>
                    /\ ret'.val = <<>>
                    /\ ret'.status = "ok"
                    /\ rows' = rows]_vars

\* an attempt was recorded on a non-empty table and no counter moved
C3_Witness ==
    /\ last = "update_question_stats"
    /\ ret.status = "ok"
    /\ rows # <<>>
    /\ TotalSeen(rows) = 0

\* C4: reset_all_statistics leaves every row with times_seen = 0 and
\* times_failed = 0 and with its id, question_text, answer_text and category,
\* adds or drops no row, and get_all_questions then reports fail_rate 0 for
\* every row.
C4_ResetZeroesCounters ==
    [][/\ reset_all_statistics =>
             /\ Len(rows') = Len(rows)
             /\ \A i \in DOMAIN rows :
                   /\ rows'[i].times_seen = 0
                   /\ rows'[i].times_failed = 0
                   /\ rows'[i].id = rows[i].id
                   /\ rows'[i].question_text = rows[i].question_text
                   /\ rows'[i].answer_text = rows[i].answer_text
                   /\ rows'[i].category = rows[i].category
                   /\ AllQuestions(rows')[i].fail_rate = <<0, 1>>
       /\ (last = "reset_all_statistics" /\ get_all_questions) =>
             /\ Len(ret'.val) = Len(rows)
             /\ \A i \in DOMAIN ret'.val :
                   /\ ret'.val[i].times_seen = 0
                   /\ ret'.val[i].times_failed = 0
                   /\ ret'.val[i].fail_rate = <<0, 1>>]_vars

\* a table of two rows or more right after a reset
C4_Witness ==
    /\ last = "reset_all_statistics"
    /\ Len(rows) >= 2
    /\ TotalSeen(rows) = 0

\* the order of the claim, on the stored counters: fail_rate first
\* (times_failed / times_seen, 0 when never seen), then times_failed
RateNum(q) == IF q.times_seen > 0 THEN q.times_failed ELSE 0

RateDen(q) == IF q.times_seen > 0 THEN q.times_seen ELSE 1

RanksAbove(a, b) ==
    \/ RateNum(a) * RateDen(b) > RateNum(b) * RateDen(a)
    \/ /\ RateNum(a) * RateDen(b) = RateNum(b) * RateDen(a)
       /\ a.times_failed > b.times_failed

\* C5: for every limit >= 0 get_most_missed_questions returns
\* min(limit, count) distinct stored questions, in non-increasing order of
\* fail_rate with ties in non-increasing order of times_failed, and no
\* question left out ranks strictly above a returned one.
C5_MostMissedSorted ==
    [][\A limit \in Limits :
          (/\ limit >= 0
           /\ last' = "get_most_missed_questions"
           /\ get_most_missed_questions(limit)) =>
              LET r == ret'.val
                  n == IF limit < Len(rows) THEN limit ELSE Len(rows)
              IN  /\ Len(r) = n
                  /\ \A k \in DOMAIN r :
                        \E i \in DOMAIN rows : r[k] = WithFailRate(rows[i])
                  /\ \A k, m \in DOMAIN r : k # m => r[k].id # r[m].id
                  /\ \A k, m \in DOMAIN r : k < m => ~RanksAbove(r[m], r[k])
                  /\ \A i \in DOMAIN rows :
                        (\A k \in DOMAIN r : r[k].id # rows[i].id) =>
                            \A k \in DOMAIN r : ~RanksAbove(rows[i], r[k])]_vars

\* a truncated answer whose first two entries tie on fail_rate and were
\* swapped by the tie-break
C5_Witness ==
    /\ last = "get_most_missed_questions"
    /\ Len(ret.val) >= 2
    /\ Len(ret.val) < Len(rows)
    /\ ret.val[1].fail_rate = ret.val[2].fail_rate
    /\ ret.val[1].times_failed > ret.val[2].times_failed
    /\ ret.val[1].id > ret.val[2].id

TextsOf(questions) == {questions[k].question_text : k \in DOMAIN questions}

HasText(rs, text) == \E i \in DOMAIN rs : rs[i].question_text = text

\* the answer and category the last tuple of the batch with this text carries
LastPayload(questions, text) ==
    LET ks == {k \in DOMAIN questions : questions[k].question_text = text}
    IN  questions[CHOOSE k \in ks : \A m \in ks : m <= k].payload

\* C6: an ingestion treats every tuple by its text: a text some row carries
\* has that row's answer_text and category overwritten and adds no row, any
\* other text adds exactly one row with zero counters; no existing row is
\* dropped and no counter of an existing row changes.
C6_IngestionUpsertsByText ==
    [][\A questions \in Batches :
          (questions # <<>> /\ load_excel_to_db(TRUE, questions)) =>
              /\ Len(rows') =
                    Len(rows) + Cardinality({t \in TextsOf(questions) :
                                                ~HasText(rows, t)})
              /\ \A i \in DOMAIN rows :
                    /\ rows'[i].id = rows[i].id
                    /\ rows'[i].question_text = rows[i].question_text
                    /\ rows'[i].times_seen = rows[i].times_seen
                    /\ rows'[i].times_failed = rows[i].times_failed
              /\ \A i \in DOMAIN rows' :
                    i > Len(rows) =>
                        /\ rows'[i].times_seen = 0
                        /\ rows'[i].times_failed = 0
              /\ \A t \in TextsOf(questions) :
                    \E i \in DOMAIN rows' :
                        /\ rows'[i].question_text = t
                        /\ <<rows'[i].answer_text, rows'[i].category>> =
                              LastPayload(questions, t)]_vars

\* C7: from any store state, ingesting a batch and then the same batch again
\* leaves the number of rows as the first ingestion left it: the second pass
\* inserts nothing and keeps every row's id, text and counters.
C7_ReingestionKeepsCount ==
    \A questions \in Batches \ {<<>>} :
        LET once == StoreQuestions(rows, questions)
            again == StoreQuestions(once, questions)
        IN  /\ Len(again) = Len(once)
            /\ \A i \in DOMAIN once :
                  /\ again[i].id = once[i].id
                  /\ again[i].question_text = once[i].question_text
                  /\ again[i].times_seen = once[i].times_seen
                  /\ again[i].times_failed = once[i].times_failed

\* after an ingestion: a table with a repeated text and a recorded attempt
\* that ingesting some batch once more leaves exactly as it is
C7_Witness ==
    /\ last = "load_excel_to_db"
    /\ ret.status = "ok"
    /\ Len(rows) >= 2
    /\ rows[1].question_text = rows[2].question_text
    /\ TotalSeen(rows) > 0
    /\ \E questions \in Batches :
          /\ Len(questions) = 2
          /\ StoreQuestions(rows, questions) = rows

\* C8: a question's weight is (1.5 if times_seen < 3 else 1.0) + 3 * fail_rate
\* with fail_rate = times_failed / times_seen, 0 when never seen: 1.5 at
\* times_seen = 0, 4.0 at (10, 10), 1.5 at (1, 0), and 1.5 for every question
\* of a set in which none was seen.
C8_WeightFormula ==
    LET qs == AllQuestions(rows)
    IN  /\ \A i \in DOMAIN qs :
              LET seen == rows[i].times_seen
                  failed == rows[i].times_failed
                  w == Weight(qs[i])
              IN  /\ w[2] > 0
                  /\ IF seen > 0
                     THEN 2 * seen * w[1] =
                             w[2] * ((IF seen < 3 THEN 3 ELSE 2) * seen + 6 * failed)
                     ELSE 2 * w[1] = 3 * w[2]
                  /\ seen = 0 => w = <<3, 2>>
                  /\ (seen = 10 /\ failed = 10) => w = <<4, 1>>
                  /\ (seen = 1 /\ failed = 0) => w = <<3, 2>>
        /\ (\A i \in DOMAIN qs : rows[i].times_seen = 0) =>
              \A i, j \in DOMAIN qs :
                  /\ Weight(qs[i]) = Weight(qs[j])
                  /\ Weight(qs[i]) = <<3, 2>>

\* the selector drew the (10, 10) question from a set that also holds a
\* question never seen
C8_Witness ==
    /\ last = "get_next_question"
    /\ Len(rows) = 2
    /\ Len(ret.val) = 1
    /\ ret.val[1].times_seen = 10
    /\ ret.val[1].times_failed = 10
    /\ \E i \in DOMAIN rows : rows[i].times_seen = 0

\* C9: in every reachable store state every question's weight is at least
\* 1.0 and at most 4.5, and every stored question is a possible result of
\* get_next_question.
C9_EveryQuestionSelectable ==
    LET qs == AllQuestions(rows)
    IN  \A i \in DOMAIN qs :
            LET w == Weight(qs[i])
            IN  /\ w[2] > 0
                /\ w[1] >= w[2]
                /\ 2 * w[1] <= 9 * w[2]
                /\ Ok(<<qs[i]>>) \in NextQuestion(rows)

\* a question at the least weight, 1.0, beside another question
C9_Witness ==
    /\ last = "update_question_stats"
    /\ Len(rows) >= 2
    /\ \E i \in DOMAIN rows : Weight(AllQuestions(rows)[i]) = <<1, 1>>

\* C10: get_next_question returns absent (None) iff the table is empty;
\* otherwise it returns exactly one question, a row of the table with its
\* fail_rate, and for a one-row table always that row.
C10_NextQuestionIsStored ==
    [][get_next_question =>
          /\ ret'.status = "ok"
          /\ (ret'.val = <<>>) <=> (rows = <<>>)
          /\ rows # <<>> =>
                /\ Len(ret'.val) = 1
                /\ \E i \in DOMAIN rows :
                      /\ ret'.val[1].id = rows[i].id
                      /\ ret'.val[1].question_text = rows[i].question_text
                      /\ ret'.val[1].answer_text = rows[i].answer_text
                      /\ ret'.val[1].category = rows[i].category
                      /\ ret'.val[1].times_seen = rows[i].times_seen
                      /\ ret'.val[1].times_failed = rows[i].times_failed
          /\ Len(rows) = 1 => ret'.val[1].id = rows[1].id]_vars

\* the selector answered over a one-row table with that row
C10_Witness ==
    /\ last = "get_next_question"
    /\ Len(rows) = 1
    /\ Len(ret.val) = 1
    /\ ret.val[1].id = rows[1].id
    /\ rows[1].times_seen > 0

\* C12: an ingestion that fails -- the source could not be read, or no valid
\* row was extracted from it -- raises ValueError to its caller and leaves the
\* table exactly as it was: same rows, same answers, same counters; and no
\* ingestion step that ends in an error changes the table.
C12_FailedIngestionChangesNothing ==
    [][last' = "load_excel_to_db" =>
          /\ ret'.status # "ok" => rows' = rows
          /\ \A readable \in BOOLEAN :
                load_excel_to_db(readable, <<>>) =>
                    /\ ret'.status = "ValueError"
                    /\ rows' = rows]_vars

\* a failed ingestion over a table that holds rows and recorded attempts
C12_Witness ==
    /\ last = "load_excel_to_db"
    /\ ret.status = "ValueError"
    /\ Len(rows) >= 2
    /\ TotalSeen(rows) > 0

\* rows whose times_seen a step raises: the attempts the step records
Recorded ==
    {i \in DOMAIN rows :
        i \in DOMAIN rows' /\ rows'[i].times_seen > rows[i].times_seen}

\* C13: in a session, a step records an attempt only if the answer was
\* revealed (show_answer) before it, and then it records one attempt, against
\* the row of current_question_id, selects a stored question as the next one
\* and hides the answer again; show_answer turns true only by Show Answer,
\* which records nothing and keeps the question.  So between two reveals at
\* most one attempt is recorded, whatever the user clicks.
C13_OneAttemptPerReveal ==
    [][/\ Recorded # {} =>
             /\ session.show_answer
             /\ \A i \in Recorded :
                   /\ rows[i].id = session.current_question_id
                   /\ rows'[i].times_seen = rows[i].times_seen + 1
             /\ Cardinality(Recorded) = 1
             /\ ~session'.show_answer
             /\ \E i \in DOMAIN rows' :
                   rows'[i].id = session'.current_question_id
       /\ (~session.show_answer /\ session'.show_answer) =>
             /\ last' = "show_answer"
             /\ rows' = rows
             /\ session'.current_question_id = session.current_question_id
       /\ (session.show_answer /\ session'.show_answer) =>
             /\ Recorded = {}
             /\ session'.current_question_id =
                   session.current_question_id]_vars

\* the last click was Pass or Fail and recorded the last attempt the bound
\* allows; some attempt was a fail; the answer of the next question is hidden
C13_Witness ==
    /\ last = "handle_pass_fail"
    /\ TotalSeen(rows) >= MaxAttempts
    /\ \E i \in DOMAIN rows : rows[i].times_failed > 0
    /\ Len(rows) >= 2
    /\ session.current_question_id # 0
    /\ ~session.show_answer
    /\ session.view_mode = "practice"

\* C14: no two stored rows have the same question_text, whatever ingestions
\* led from the empty table to the state.
C14_TextsUnique ==
    \A i, j \in DOMAIN rows :
        rows[i].question_text = rows[j].question_text => i = j
====
